---- MODULE Spec2Model ----
(***************************************************************************)
(* Model of js/main.js: the DOMContentLoaded handler that wires the        *)
(* scroll-reveal watcher, the counter animation and the burger menu.       *)
(*                                                                         *)
(* The counter accumulator is a JavaScript number (IEEE-754 binary64).     *)
(* It is modelled bit-exactly: a Dbl is a sign and a magnitude counted in  *)
(* units of 2^-59, held in three limbs of 22 bits (hi, mid, lo), so that   *)
(* every operation rounds to 53 significant bits, ties to even, as the     *)
(* hardware does.  The representation is exact for magnitudes below 128    *)
(* that are 0 or at least 2^-7, which covers every value the animation     *)
(* computes for targets of magnitude 1..MaxTarget.                         *)
(***************************************************************************)
EXTENDS Integers, Sequences, FiniteSets, TLC

\* ---------------------------------------------------------------- bounds
MaxTarget == 100         \* largest data-target attribute explored
MaxBelowZero == 2        \* data-target attributes down to -MaxBelowZero
MaxBatch == 2            \* most entries in one intersection callback
MaxClicks == 4           \* clicks on the toggle control that are counted

\* ------------------------------------------------------ program constants
duration == 1500
stepTime == 15
\* Variant: the step count taken from the wrong constant.
totalStepsFromStepTime == stepTime
totalSteps == duration \div stepTime

\* ------------------------------------------------- binary64 arithmetic
Limb == 2 ^ 22
IntScale == 2 ^ 15       \* the integer 1 is IntScale * Limb^2 units

Pow2(n) == 2 ^ n

\* F applied to the value of e, with e evaluated once (a LET name is
\* re-evaluated at each use when TLC evaluates ENABLED).
Strict(e, F(_)) == CHOOSE y \in {F(x) : x \in {e}} : TRUE

RECURSIVE BitLen(_)
BitLen(n) == IF n = 0 THEN 0 ELSE 1 + BitLen(n \div 2)

Zero == [neg |-> FALSE, hi |-> 0, mid |-> 0, lo |-> 0]

IsZero(x) == x.hi = 0 /\ x.mid = 0 /\ x.lo = 0

\* Position (from 0) of the leading bit of a magnitude, -1 for zero.
TopBit(hi, mid, lo) ==
    IF hi > 0 THEN 44 + BitLen(hi) - 1
    ELSE IF mid > 0 THEN 22 + BitLen(mid) - 1
    ELSE BitLen(lo) - 1

\* Carry a limb triple whose lo or mid may have reached Limb.
Carry(hi, mid, lo) ==
    LET m1 == mid + (lo \div Limb)
    IN  [hi |-> hi + (m1 \div Limb), mid |-> m1 % Limb, lo |-> lo % Limb]

\* Round the magnitude hi:mid:lo + num/den units to 53 significant bits,
\* to nearest, ties to even.
Round53(hi, mid, lo, num, den) ==
    Strict(TopBit(hi, mid, lo), LAMBDA p :
        LET d == IF p > 52 THEN p - 52 ELSE 0
            q == Pow2(d)
            rem == lo % q
            kept == lo - rem
            lhs == 2 * (rem * den + num)
            rhs == q * den
            odd == (lo \div q) % 2 = 1
            up == lhs > rhs \/ (lhs = rhs /\ odd)
        IN  IF up THEN Carry(hi, mid, kept + q) ELSE Carry(hi, mid, kept))

\* The number n as a Dbl, exact for |n| < 128.
FromInt(n) ==
    [neg |-> n < 0, hi |-> (IF n < 0 THEN -n ELSE n) * IntScale,
     mid |-> 0, lo |-> 0]

\* n / m in binary64 for integers |n| < 128, 0 < m < 512: long division
\* limb by limb, then one rounding.
FDivInt(n, m) ==
    LET a == IF n < 0 THEN -n ELSE n
        n1 == a * IntScale
        r1 == n1 % m
        n2 == r1 * Limb
        r2 == n2 % m
        n3 == r2 * Limb
        r3 == n3 % m
    IN  Strict(Round53(n1 \div m, n2 \div m, n3 \div m, r3, m), LAMBDA r :
            [neg |-> n < 0, hi |-> r.hi, mid |-> r.mid, lo |-> r.lo])

\* x + y in binary64, for x zero or of the sign of y (the accumulator only
\* ever adds one increment to a sum of the same increments).
FAdd(x, y) ==
    Strict(Carry(x.hi + y.hi, x.mid + y.mid, x.lo + y.lo), LAMBDA s :
        Strict(Round53(s.hi, s.mid, s.lo, 0, 1), LAMBDA r :
            [neg |-> y.neg, hi |-> r.hi, mid |-> r.mid, lo |-> r.lo]))

MagLess(x, y) ==
    \/ x.hi < y.hi
    \/ x.hi = y.hi /\ x.mid < y.mid
    \/ x.hi = y.hi /\ x.mid = y.mid /\ x.lo < y.lo

\* x < y on Dbl values (-0 and +0 compare equal).
FLess(x, y) ==
    IF IsZero(x) /\ IsZero(y) THEN FALSE
    ELSE IF x.neg /\ ~IsZero(x)
         THEN IF y.neg /\ ~IsZero(y) THEN MagLess(y, x) ELSE TRUE
         ELSE IF y.neg /\ ~IsZero(y) THEN FALSE ELSE MagLess(x, y)

\* Math.ceil(x) as the integer the element shows.
Ceil(x) ==
    LET ip == x.hi \div IntScale
        frac == (x.hi % IntScale) # 0 \/ x.mid # 0 \/ x.lo # 0
    IN  IF x.neg THEN -ip ELSE IF frac THEN ip + 1 ELSE ip


\* ------------------------------------------------------------- the page
RevealEls == {"r1", "r2", "r3"}      \* candidates for .scroll-animate
CounterEls == {"c1", "c2"}           \* candidates for .js-counter
Targets == (-MaxBelowZero)..MaxTarget      \* values of the data-target attribute

\* What one intersection round can report: a target and isIntersecting.
Entries(S) == [target : S, isIntersecting : BOOLEAN]
Batches(S) == UNION {[1..n -> Entries(S)] : n \in 1..MaxBatch}

VARIABLES
    document,          \* the parsed page: which elements exist, data-target
    phase,             \* "loading", "ready" (handler returned), "failed" (it threw)
    observed,          \* targets registered with observer (reveal)
    counterObserved,   \* targets registered with counterObserver
    visible,           \* elements whose classList holds 'visible'
    runs,              \* per counter, the closures created by the callback
    timers,            \* pending setTimeout callbacks, in firing order
    innerText,         \* per counter, <<>> (markup) or <<n>> once written
    menuActive,        \* 'active' in navbarMenu.classList
    clickFault,        \* the last click handler threw
    clicks,            \* history: clicks delivered to the toggle control
    delivered,         \* history: reveal elements reported as intersecting
    scrolledOut,       \* history: reveal elements reported out of view once visible
    reentered,         \* history: counters the last round found intersecting but unobserved
    missed,            \* history: counters reported out of view while still observed
    log                \* history: the updateCounter calls of the last step, in order

vars == <<document, phase, observed, counterObserved, visible, runs, timers,
          innerText, menuActive, clickFault, clicks, delivered, scrolledOut,
          reentered, missed, log>>

revealVars == <<observed, visible, delivered, scrolledOut>>
counterVars == <<counterObserved, runs, timers, innerText, reentered, missed,
                 log>>
menuVars == <<menuActive, clickFault, clicks>>

\* Pages: the elements each query finds and the counters' attributes.
Docs(animated, counters, dataTargets, togglers, menus) ==
    {[animated |-> a, counters |-> c, dataTarget |-> t,
      toggler |-> g, menu |-> m] :
        a \in animated, c \in counters, t \in dataTargets,
        g \in togglers, m \in menus}

NoTargets == [e \in CounterEls |-> 0]

\* ------------------------------------------------------ reveal animator
\* Variant: the class follows isIntersecting, so leaving the view unmarks.
RECURSIVE RevealForEachFollow(_, _)
RevealForEachFollow(vis, entries) ==
    IF entries = <<>> THEN vis
    ELSE LET entry == Head(entries)
         IN  RevealForEachFollow(IF entry.isIntersecting
                                 THEN vis \cup {entry.target}
                                 ELSE vis \ {entry.target},
                                 Tail(entries))

\* Variant: the isIntersecting test is missing, every entry marks.
RECURSIVE RevealForEachAll(_, _)
RevealForEachAll(vis, entries) ==
    IF entries = <<>> THEN vis
    ELSE RevealForEachAll(vis \cup {Head(entries).target}, Tail(entries))

\* The observer callback, lines 5-10: classList.add on intersecting targets.
RECURSIVE RevealForEach(_, _)
RevealForEach(vis, entries) ==
    IF entries = <<>> THEN vis
    ELSE LET entry == Head(entries)
         IN  RevealForEach(IF entry.isIntersecting
                           THEN vis \cup {entry.target} ELSE vis,
                           Tail(entries))

IntersectingTargets(entries) ==
    {entries[i].target : i \in {j \in DOMAIN entries : entries[j].isIntersecting}}

RevealIntersect(entries) ==
    /\ phase # "loading"
    /\ \A i \in DOMAIN entries : entries[i].target \in observed
    /\ visible' = RevealForEach(visible, entries)
    /\ delivered' = delivered \cup IntersectingTargets(entries)
    /\ scrolledOut' = scrolledOut \cup
           {entries[i].target : i \in {j \in DOMAIN entries :
               ~entries[j].isIntersecting /\ entries[j].target \in visible}}
    /\ UNCHANGED <<document, phase, observed, counterVars, menuVars>>

\* ----------------------------------------------------- counter animator
\* Variant: the else branch shows Math.ceil(current) instead of target.
UpdateCounterNoClamp(w, e, i) ==
    LET r == w.runs[e][i]
    IN  Strict(FAdd(r.current, r.increment), LAMBDA current :
            LET more == FLess(current, FromInt(r.target))
                text == Ceil(current)
            IN  [w EXCEPT
                   !.runs[e][i] = [r EXCEPT !.current = current, !.n = @ + 1,
                                            !.done = ~more],
                   !.innerText[e] = <<text>>,
                   !.timers = IF more THEN Append(@, <<e, i>>) ELSE @,
                   !.log = Append(@, [el |-> e, run |-> i, n |-> r.n + 1,
                                      val |-> text, scheduled |-> more])])

\* Variant: the text is written to every counter, not to the closure's own.
UpdateCounterAllTexts(w, e, i) ==
    LET r == w.runs[e][i]
    IN  Strict(FAdd(r.current, r.increment), LAMBDA current :
            LET more == FLess(current, FromInt(r.target))
                text == IF more THEN Ceil(current) ELSE r.target
            IN  [w EXCEPT
                   !.runs[e][i] = [r EXCEPT !.current = current, !.n = @ + 1,
                                            !.done = ~more],
                   !.innerText = [c \in CounterEls |-> <<text>>],
                   !.timers = IF more THEN Append(@, <<e, i>>) ELSE @,
                   !.log = Append(@, [el |-> e, run |-> i, n |-> r.n + 1,
                                      val |-> text, scheduled |-> more])])

\* Variant: the setTimeout call is missing, the chain stops after a step.
UpdateCounterNoReschedule(w, e, i) ==
    LET r == w.runs[e][i]
    IN  Strict(FAdd(r.current, r.increment), LAMBDA current :
            LET more == FLess(current, FromInt(r.target))
                text == IF more THEN Ceil(current) ELSE r.target
            IN  [w EXCEPT
                   !.runs[e][i] = [r EXCEPT !.current = current, !.n = @ + 1,
                                            !.done = ~more],
                   !.innerText[e] = <<text>>,
                   !.log = Append(@, [el |-> e, run |-> i, n |-> r.n + 1,
                                      val |-> text, scheduled |-> FALSE])])

\* Variant: Math.floor in place of Math.ceil (for a positive accumulator).
UpdateCounterFloor(w, e, i) ==
    LET r == w.runs[e][i]
    IN  Strict(FAdd(r.current, r.increment), LAMBDA current :
            LET more == FLess(current, FromInt(r.target))
                text == IF more THEN current.hi \div IntScale ELSE r.target
            IN  [w EXCEPT
                   !.runs[e][i] = [r EXCEPT !.current = current, !.n = @ + 1,
                                            !.done = ~more],
                   !.innerText[e] = <<text>>,
                   !.timers = IF more THEN Append(@, <<e, i>>) ELSE @,
                   !.log = Append(@, [el |-> e, run |-> i, n |-> r.n + 1,
                                      val |-> text, scheduled |-> more])])

\* updateCounter, lines 31-39, run for closure i of counter e.
UpdateCounter(w, e, i) ==
    LET r == w.runs[e][i]
    IN  Strict(FAdd(r.current, r.increment), LAMBDA current :
            LET more == FLess(current, FromInt(r.target))
                text == IF more THEN Ceil(current) ELSE r.target
            IN  [w EXCEPT
                   !.runs[e][i] = [r EXCEPT !.current = current, !.n = @ + 1,
                                            !.done = ~more],
                   !.innerText[e] = <<text>>,
                   !.timers = IF more THEN Append(@, <<e, i>>) ELSE @,
                   !.log = Append(@, [el |-> e, run |-> i, n |-> r.n + 1,
                                      val |-> text, scheduled |-> more])])

\* Variant: the unobserve call is missing.
UnobserveMissing(targets, e) == targets

\* observer.unobserve(counter), line 42.
Unobserve(targets, e) == targets \ {e}

\* Variant: the first step is scheduled with setTimeout instead of called.
OnCounterEntryDeferred(w, entry) ==
    IF entry.isIntersecting
    THEN LET counter == entry.target
             target == document.dataTarget[counter]
             run == [target |-> target, current |-> Zero,
                     increment |-> FDivInt(target, totalSteps),
                     n |-> 0, done |-> FALSE]
             w1 == [w EXCEPT !.runs[counter] = Append(@, run)]
             w2 == [w1 EXCEPT
                      !.timers = Append(@, <<counter, Len(w1.runs[counter])>>)]
         IN  [w2 EXCEPT !.observed = Unobserve(@, counter)]
    ELSE w

\* Variant: the isIntersecting test is missing, every entry starts a run.
OnCounterEntryAlways(w, entry) ==
    LET counter == entry.target
        target == document.dataTarget[counter]
        run == [target |-> target, current |-> Zero,
                increment |-> FDivInt(target, totalSteps),
                n |-> 0, done |-> FALSE]
        w1 == [w EXCEPT !.runs[counter] = Append(@, run)]
        w2 == UpdateCounter(w1, counter, Len(w1.runs[counter]))
    IN  [w2 EXCEPT !.observed = Unobserve(@, counter)]

\* One entry of the counterObserver callback, lines 21-43.
OnCounterEntry(w, entry) ==
    IF entry.isIntersecting
    THEN LET counter == entry.target
             target == document.dataTarget[counter]
             run == [target |-> target, current |-> Zero,
                     increment |-> FDivInt(target, totalSteps),
                     n |-> 0, done |-> FALSE]
             w1 == [w EXCEPT !.runs[counter] = Append(@, run)]
             w2 == UpdateCounter(w1, counter, Len(w1.runs[counter]))
         IN  [w2 EXCEPT !.observed = Unobserve(@, counter)]
    ELSE w

RECURSIVE CounterForEach(_, _)
CounterForEach(w, entries) ==
    IF entries = <<>> THEN w
    ELSE CounterForEach(OnCounterEntry(w, Head(entries)), Tail(entries))

World == [runs |-> runs, timers |-> timers, innerText |-> innerText,
          observed |-> counterObserved, log |-> <<>>]

SetWorld(w) ==
    /\ runs' = w.runs
    /\ timers' = w.timers
    /\ innerText' = w.innerText
    /\ counterObserved' = w.observed
    /\ log' = w.log

\* An intersection round over the counters: the watcher queues an entry
\* only for a registered target and calls back with the queued entries.
CounterIntersect(changes) ==
    /\ phase # "loading"
    /\ \E w \in {CounterForEach(World,
               SelectSeq(changes, LAMBDA c : c.target \in counterObserved))} :
           SetWorld(w)
    /\ reentered' = IntersectingTargets(changes) \ counterObserved
    /\ missed' = missed \cup
           {changes[i].target : i \in {j \in DOMAIN changes :
               ~changes[j].isIntersecting /\ changes[j].target \in counterObserved}}
    /\ UNCHANGED <<document, phase, revealVars, menuVars>>

\* The oldest pending timer fires (equal delays fire in scheduling order).
TimerFire ==
    /\ timers # <<>>
    /\ \E w \in {UpdateCounter([World EXCEPT !.timers = Tail(timers)],
                                Head(timers)[1], Head(timers)[2])} :
           SetWorld(w)
    /\ reentered' = {}
    /\ UNCHANGED <<document, phase, revealVars, menuVars, missed>>

\* --------------------------------------------------------- menu toggler
\* Variant: classList.add in place of classList.toggle.
ToggleAsAdd(active) == TRUE

\* classList.toggle('active'), line 58.
Toggle(active) == ~active

\* Variant: the click handler also disconnects the counter watcher.
ClickDisconnects ==
    /\ phase = "ready"
    /\ document.toggler
    /\ clicks < MaxClicks
    /\ clicks' = clicks + 1
    /\ IF document.menu
       THEN menuActive' = Toggle(menuActive) /\ clickFault' = FALSE
       ELSE menuActive' = menuActive /\ clickFault' = TRUE
    /\ counterObserved' = {}
    /\ UNCHANGED <<document, phase, revealVars, runs, timers, innerText,
                   reentered, missed, log>>

Click ==
    /\ phase = "ready"
    /\ document.toggler
    /\ clicks < MaxClicks
    /\ clicks' = clicks + 1
    /\ IF document.menu
       THEN menuActive' = Toggle(menuActive) /\ clickFault' = FALSE
       ELSE menuActive' = menuActive /\ clickFault' = TRUE
    /\ UNCHANGED <<document, phase, revealVars, counterVars>>

\* ----------------------------------------------- DOMContentLoaded handler
\* Lines 1-60: both watchers are created and fed before the toggle control
\* is dereferenced on line 57.
\* Variant: the listener is bound behind a null check.
InitOutcomeGuarded(doc) == "ready"

InitOutcome(doc) == IF doc.toggler THEN "ready" ELSE "failed"

\* Variant: the menu is wired first, so a missing toggle control throws
\* before either watcher observes anything.
DOMContentLoadedMenuFirst ==
    /\ phase = "loading"
    /\ observed' = IF document.toggler THEN document.animated ELSE {}
    /\ counterObserved' = IF document.toggler THEN document.counters ELSE {}
    /\ phase' = InitOutcome(document)
    /\ UNCHANGED <<document, visible, delivered, scrolledOut, runs, timers,
                   innerText, reentered, missed, log, menuVars>>

DOMContentLoaded ==
    /\ phase = "loading"
    /\ observed' = document.animated
    /\ counterObserved' = document.counters
    /\ phase' = InitOutcome(document)
    /\ UNCHANGED <<document, visible, delivered, scrolledOut, runs, timers,
                   innerText, reentered, missed, log, menuVars>>

\* ------------------------------------------------------- specifications
InitWith(docs) ==
    /\ document \in docs
    /\ phase = "loading"
    /\ observed = {}
    /\ counterObserved = {}
    /\ visible = {}
    /\ runs = [e \in CounterEls |-> <<>>]
    /\ timers = <<>>
    /\ innerText = [e \in CounterEls |-> <<>>]
    /\ menuActive = FALSE
    /\ clickFault = FALSE
    /\ clicks = 0
    /\ delivered = {}
    /\ scrolledOut = {}
    /\ reentered = {}
    /\ missed = {}
    /\ log = <<>>

RevealStep == \E entries \in Batches(document.animated) : RevealIntersect(entries)
CounterStep == \E changes \in Batches(document.counters) : CounterIntersect(changes)

\* The page without counters: reveal group and menu.
StaticDocs == Docs(SUBSET RevealEls, {{}}, {NoTargets}, BOOLEAN, BOOLEAN)
InitStatic == InitWith(StaticDocs)
NextStatic == DOMContentLoaded \/ RevealStep \/ Click
SpecStatic == InitStatic /\ [][NextStatic]_vars

\* A page with one counter and any target.
CounterDocs ==
    Docs({{}}, {{"c1"}}, {[NoTargets EXCEPT !["c1"] = t] : t \in Targets},
         {TRUE}, {TRUE})
InitCounter == InitWith(CounterDocs)
NextCounter == DOMContentLoaded \/ CounterStep \/ TimerFire
SpecCounter == InitCounter /\ [][NextCounter]_vars

\* A page with two counters whose timer chains interleave.  Rounds that
\* report only registered targets: the watcher drops every other report.
ObservedStep == \E changes \in Batches(counterObserved) : CounterIntersect(changes)
PairDocs ==
    Docs({{}}, {CounterEls}, {[c1 |-> 3, c2 |-> t] : t \in {0, 2}}, {TRUE}, {TRUE})
InitPair == InitWith(PairDocs)
NextPair == DOMContentLoaded \/ ObservedStep \/ TimerFire
SpecPair == InitPair /\ [][NextPair]_vars

\* A page with one counter where every pending timer eventually fires
\* (the event loop runs a timer callback once its delay has passed).
LiveTargets == (-MaxBelowZero)..(6 * MaxBelowZero)
LiveDocs ==
    Docs({{}}, {{"c1"}}, {[NoTargets EXCEPT !["c1"] = t] : t \in LiveTargets},
         {TRUE}, {TRUE})
InitLive == InitWith(LiveDocs)
SpecLive == InitLive /\ [][NextCounter]_vars /\ WF_vars(TimerFire)

\* A whole page: one reveal element, one counter, the menu.
PageTargets == {0, 3}
PageDocs ==
    Docs({{"r1"}}, {{"c1"}}, {[NoTargets EXCEPT !["c1"] = t] : t \in PageTargets},
         BOOLEAN, BOOLEAN)
Init == InitWith(PageDocs)
Next == DOMContentLoaded \/ RevealStep \/ CounterStep \/ TimerFire \/ Click
Spec == Init /\ [][Next]_vars

\* --------------------------------------------------------------- helpers
TargetOf(e) == document.dataTarget[e]
Started(e) == runs[e] # <<>>
Completed(e) == \E i \in DOMAIN runs[e] : runs[e][i].done
PendingOf(e) == {k \in DOMAIN timers : timers[k][1] = e}
PendingIds(q, e) == {q[k] : k \in {j \in DOMAIN q : q[j][1] = e}}
Finished(e) ==
    /\ Started(e)
    /\ \A i \in DOMAIN runs[e] : runs[e][i].done
    /\ PendingOf(e) = {}
WritesTo(e, l) == SelectSeq(l, LAMBDA x : x.el = e)
NonDecreasing(q) == \A i \in 1..(Len(q) - 1) : q[i] <= q[i + 1]
Vals(l) == [i \in DOMAIN l |-> l[i].val]
ExactCeil(a, b) == (a + b - 1) \div b

\* ---------------------------------------------------------------- claims

\* C1: once a step of a counter with target T >= 1 has taken the else
\* branch, the element shows T and no timer of that element is pending.
C1_Convergence ==
    \A e \in CounterEls :
        (TargetOf(e) >= 1 /\ Completed(e)) =>
            (innerText[e] = <<TargetOf(e)>> /\ PendingOf(e) = {})

\* C2: for a target T >= 0 the values written to the element never
\* decrease from one write to the next, and when the animation has ended
\* the last value written is T.
C2_MonotoneStep ==
    \A e \in CounterEls :
        TargetOf(e) >= 0 =>
            NonDecreasing(innerText[e] \o Vals(WritesTo(e, log')))
C2_EndsAtTarget ==
    \A e \in CounterEls :
        (TargetOf(e) >= 0 /\ Finished(e)) => innerText[e] = <<TargetOf(e)>>
C2_Monotone == [][C2_MonotoneStep]_vars /\ []C2_EndsAtTarget
C2_Witness ==
    \E e \in CounterEls :
        /\ TargetOf(e) >= 2
        /\ Finished(e)
        /\ innerText[e] = <<TargetOf(e)>>
        /\ \E i \in DOMAIN runs[e] : runs[e][i].n >= 100

\* C3: whatever intersection callbacks are delivered, at most one
\* updateCounter chain is ever started for a counter element.
C3_AtMostOneRun == \A e \in CounterEls : Len(runs[e]) <= 1

\* C4: once a counter's animation has completed, no later step starts a
\* new run for it, changes its text away from the target or schedules a
\* timer for it, also when it is reported intersecting again.
C4_NoRestartStep ==
    \A e \in CounterEls :
        Completed(e) =>
            /\ Len(runs'[e]) = Len(runs[e])
            /\ innerText'[e] = <<TargetOf(e)>>
            /\ PendingIds(timers', e) \subseteq PendingIds(timers, e)
C4_NoRestart == [][C4_NoRestartStep]_vars
C4_Witness ==
    \E e \in CounterEls :
        /\ Completed(e)
        /\ e \in reentered
        /\ TargetOf(e) >= 1
        /\ innerText[e] = <<TargetOf(e)>>

\* C5: with both menu elements on the page and the menu closed at the
\* start, after N clicks the menu is open exactly when N is odd.
C5_ToggleParity ==
    (document.toggler /\ document.menu) => (menuActive <=> clicks % 2 = 1)
C5_Witness == document.menu /\ clicks = 2 /\ ~menuActive

\* C6: a reveal element that is visible stays visible in every later
\* state, and a callback whose intersecting entries all name visible
\* elements changes nothing.
C6_Idempotent ==
    \A entries \in Batches(observed) :
        IntersectingTargets(entries) \subseteq visible =>
            RevealForEach(visible, entries) = visible
C6_OneWay == [][visible \subseteq visible']_vars /\ []C6_Idempotent
C6_Witness == \E e \in RevealEls : e \in visible /\ e \in scrolledOut

\* C7: a reveal element is visible exactly when an intersecting entry has
\* been delivered for it.
C7_Selective == \A e \in RevealEls : e \in visible <=> e \in delivered
C7_Witness ==
    /\ Cardinality(document.animated) = 3
    /\ Cardinality(visible) = 1
    /\ visible = delivered

\* C8: for a counter with target 0 the callback itself writes 0 and ends
\* the run in its first step; no timer of that element is ever pending.
C8_TargetZero ==
    \A e \in CounterEls :
        TargetOf(e) = 0 =>
            /\ PendingOf(e) = {}
            /\ Started(e) => innerText[e] = <<0>>
            /\ \A i \in DOMAIN runs[e] : runs[e][i].done /\ runs[e][i].n = 1
C8_Witness ==
    \E e \in CounterEls :
        TargetOf(e) = 0 /\ Started(e) /\ innerText[e] = <<0>> /\ timers = <<>>

\* C9 as stated: for T >= 1 step k of a run, k = 1..99, writes
\* ceil(k*T/100) and schedules a timer, and step 100 writes T and ends it.
C9_ExactSteps ==
    \A k \in DOMAIN log :
        LET l == log[k]
            T == TargetOf(l.el)
        IN  T >= 1 =>
              /\ l.n <= 100
              /\ l.n <= 99 => (l.scheduled /\ l.val = ExactCeil(l.n * T, 100))
              /\ l.n = 100 => (~l.scheduled /\ l.val = T)

\* C9 amended: for T >= 1 a run takes 100 or 101 steps; a step before the
\* last writes ceil(k*T/100) or one more, never more than T, and leaves
\* exactly one timer of the run pending; the last step writes T and leaves
\* none; for T = 100 step k writes k and step 100 is the last.
C9_RunShape ==
    \A e \in CounterEls : \A i \in DOMAIN runs[e] :
        LET r == runs[e][i]
            mine == {k \in DOMAIN timers : timers[k] = <<e, i>>}
        IN  TargetOf(e) >= 1 =>
              /\ r.n \in 1..101
              /\ r.done => (r.n \in {100, 101} /\ mine = {})
              /\ ~r.done => (r.n <= 100 /\ Cardinality(mine) = 1)
C9_StepValues ==
    \A k \in DOMAIN log :
        LET l == log[k]
            T == TargetOf(l.el)
            c == ExactCeil(l.n * T, 100)
        IN  T >= 1 =>
              /\ l.scheduled => (l.n <= 100 /\ l.val \in {c, c + 1} /\ l.val <= T)
              /\ ~l.scheduled => (l.n \in {100, 101} /\ l.val = T)
              /\ T = 100 => (l.val = l.n /\ (l.scheduled <=> l.n < 100))
C9_Steps == C9_RunShape /\ C9_StepValues
C9_Witness ==
    \E e \in CounterEls :
        /\ TargetOf(e) = 100
        /\ Finished(e)
        /\ innerText[e] = <<100>>
        /\ \A i \in DOMAIN runs[e] : runs[e][i].n = 100

\* C10 as stated: when the toggle control or the menu container is
\* missing, the handler fails while it initialises, and no fault comes later.
C10_FailsAtInit ==
    (phase # "loading" /\ (~document.toggler \/ ~document.menu)) =>
        (phase = "failed" /\ ~clickFault)

\* C10 amended: the handler fails while initialising exactly when the
\* toggle control is missing; when only the menu container is missing it
\* completes, and the fault comes with every click, which leaves the menu
\* state as it was.
C10_Faults ==
    /\ phase # "loading" => (phase = "failed" <=> ~document.toggler)
    /\ clickFault <=> (document.toggler /\ ~document.menu /\ clicks > 0)
    /\ ~document.menu => ~menuActive
C10_Witness ==
    document.toggler /\ ~document.menu /\ phase = "ready" /\ clickFault

\* C11 as stated: a counter whose animation has started and not yet
\* completed is still registered with the counter watcher.
C11_ObservedWhileRunning ==
    \A e \in CounterEls :
        (Started(e) /\ ~Completed(e)) => e \in counterObserved

\* C11 amended: the callback that starts the animation also unobserves the
\* element; a counter of the page is registered exactly until its
\* animation starts, and the remaining steps run while it is unobserved.
C11_UnobservedOnceStarted ==
    phase # "loading" =>
        \A e \in document.counters : e \in counterObserved <=> ~Started(e)
C11_Witness ==
    \E e \in CounterEls :
        /\ Started(e)
        /\ ~Completed(e)
        /\ e \notin counterObserved
        /\ PendingOf(e) # {}

\* C12: every counter has at most one pending timer, and a timer of an
\* element appears only in a step in which updateCounter ran for it.
C12_OnePending == \A e \in CounterEls : Cardinality(PendingOf(e)) <= 1
C12_ScheduledByOwnStep ==
    \A e \in CounterEls :
        (PendingIds(timers', e) \ PendingIds(timers, e) # {}) =>
            \E k \in DOMAIN log' : log'[k].el = e /\ log'[k].scheduled
C12_NoOverlap == []C12_OnePending /\ [][C12_ScheduledByOwnStep]_vars

\* C13: whether or not the toggle control and the menu container exist,
\* after the handler has run every reveal element is observed, every
\* counter is observed until it starts, reveal elements are marked exactly
\* when reported intersecting and a finished counter shows its target.
C13_Isolation ==
    phase # "loading" =>
        /\ observed = document.animated
        /\ \A e \in document.counters : e \in counterObserved <=> ~Started(e)
        /\ visible = delivered
        /\ \A e \in document.counters :
               Finished(e) => innerText[e] = <<TargetOf(e)>>
C13_Witness ==
    /\ phase = "failed"
    /\ ~document.toggler
    /\ visible = document.animated
    /\ visible # {}
    /\ \E e \in document.counters : TargetOf(e) >= 1 /\ Finished(e)

\* C14: a step that runs updateCounter for some counters leaves the runs,
\* text, pending timers and registration of every other counter as they
\* were, and every counter whose animation has ended shows its own target.
C14_Frame ==
    \A e \in CounterEls :
        (phase # "loading" /\ \A k \in DOMAIN log' : log'[k].el # e) =>
            /\ runs'[e] = runs[e]
            /\ innerText'[e] = innerText[e]
            /\ PendingIds(timers', e) = PendingIds(timers, e)
            /\ (e \in counterObserved' <=> e \in counterObserved)
C14_OwnTarget ==
    \A e \in CounterEls : Finished(e) => innerText[e] = <<TargetOf(e)>>
C14_Independent == [][C14_Frame]_vars /\ []C14_OwnTarget
C14_Witness ==
    /\ TargetOf("c1") # TargetOf("c2")
    /\ Finished("c1")
    /\ innerText["c1"] = <<TargetOf("c1")>>
    /\ PendingOf("c2") # {}
    /\ innerText["c2"] # innerText["c1"]

\* C15: the menu state changes only in a click step, and a click step
\* changes nothing of the reveal group or of the counters.
C15_Frame ==
    /\ menuActive' # menuActive => clicks' = clicks + 1
    /\ clicks' # clicks =>
           UNCHANGED <<document, phase, observed, visible, counterObserved,
                       runs, timers, innerText>>
C15_MenuFrame == [][C15_Frame]_vars
C15_Witness ==
    /\ menuActive
    /\ clicks = 1
    /\ visible # {}
    /\ timers # <<>>

\* C16: with pending timers eventually fired, a started animation reaches
\* the state where the element shows its target and no timer is pending,
\* for every target; for a target <= 0 every run ends in its first step
\* and no timer is ever pending.
C16_FirstStep ==
    \A e \in CounterEls :
        TargetOf(e) <= 0 =>
            /\ PendingOf(e) = {}
            /\ \A i \in DOMAIN runs[e] : runs[e][i].done /\ runs[e][i].n = 1
C16_Terminates ==
    /\ []C16_FirstStep
    /\ \A e \in CounterEls :
           Started(e) ~> (Finished(e) /\ innerText[e] = <<TargetOf(e)>>)
C16_Witness ==
    \E e \in CounterEls :
        TargetOf(e) < 0 /\ Finished(e) /\ innerText[e] = <<TargetOf(e)>>

\* C17: for a target T >= 1 every value written is in 1..T, and so is the
\* text of the element once its animation has started.
C17_Bounds ==
    /\ \A k \in DOMAIN log :
           TargetOf(log[k].el) >= 1 => log[k].val \in 1..TargetOf(log[k].el)
    /\ \A e \in CounterEls :
           (TargetOf(e) >= 1 /\ Started(e)) =>
               (Len(innerText[e]) = 1 /\ innerText[e][1] \in 1..TargetOf(e))
C17_Witness ==
    \E e \in CounterEls :
        /\ TargetOf(e) >= 2
        /\ ~Completed(e)
        /\ innerText[e] = <<TargetOf(e)>>

\* C18: an entry with isIntersecting false for an observed counter leaves
\* runs, text, timers and registration as they were, and an intersecting
\* entry after it starts the animation.
C18_Inert ==
    \A e \in counterObserved :
        LET w == OnCounterEntry(World, [target |-> e, isIntersecting |-> FALSE])
            v == OnCounterEntry(w, [target |-> e, isIntersecting |-> TRUE])
        IN  /\ w = World
            /\ ~Started(e)
            /\ Len(v.runs[e]) = 1
            /\ v.innerText[e] # <<>>
C18_Witness ==
    \E e \in CounterEls :
        /\ e \in missed
        /\ Started(e)
        /\ Len(runs[e]) = 1
        /\ innerText[e] # <<>>

====
